---- MODULE Spec2Model ----
(***************************************************************************)
(* Cloud Recorder (frontend/src/App.js): the capture session and the       *)
(* client-side upload queue.  Every event-loop task of the component       *)
(* (click handler, promise continuation, timer callback, recorder event)   *)
(* is one atomic action: JavaScript runs each of them to completion.       *)
(***************************************************************************)
EXTENDS Integers, Sequences, FiniteSets, TLC

\* ------------------------------------------------------------------ bounds
\* Non-empty chunks emitted in one run of the model.
MaxChunks == 2
\* Calls of startRecording that reach the capture prompt in one run.
MaxStarts == 2

\* ------------------------------------------------------- program constants
MAX_RETRIES == 3
BASE_DELAY == 1000

VARIABLES
    isRecording,      \* useState(false)
    uploadQueue,      \* useState([]): the list shown to the user, items [id, seq, status]
    mediaRecorderRef, \* useRef(null): 0 is null, else an index into recorders
    chunkSequence,    \* useRef(0)
    timerInterval,    \* useRef(null): 0 is null, else an index into intervals
    uploadQueueRef,   \* useRef([]): the processing queue, indices into chunks
    isUploadingRef,   \* useRef(false): the in-flight flag
    chunks,           \* the chunkData objects ever created, [id, seq, retries]
    recorders,        \* the MediaRecorder objects ever constructed, with their streams
    intervals,        \* the setInterval timers ever created: TRUE while active
    prompts,          \* calls of startRecording awaiting getUserMedia/getDisplayMedia
    now,              \* the last value Date.now() returned
    online,           \* navigator.onLine
    pollTimers,       \* pending setTimeout(processQueue, 5000) callbacks
    running,          \* processQueue invocations suspended at an await
    attempts,         \* per chunk: axios.post calls made for it
    outcome,          \* per chunk: terminal branches processQueue took for it
    emitter,          \* per chunk: the recorder whose dataavailable event made it
    hist              \* per list item: the statuses it has shown, in order

vars == <<isRecording, uploadQueue, mediaRecorderRef, chunkSequence, timerInterval,
          uploadQueueRef, isUploadingRef, chunks, recorders, intervals, prompts,
          now, online, pollTimers, running, attempts, outcome, emitter, hist>>

captureVars == <<isRecording, mediaRecorderRef, chunkSequence, timerInterval,
                 recorders, intervals, prompts>>

\* ----------------------------------------------------------------- helpers
RemoveAt(s, i) == SubSeq(s, 1, i - 1) \o SubSeq(s, i + 1, Len(s))

\* Mutant of RetryStatus: the label is formatted from the count before its
\* increment.
RetryStatusStale(n) == "retry (" \o ToString(n - 1) \o ")"

\* `retry (${currentChunk.retries})`
RetryStatus(n) == "retry (" \o ToString(n) \o ")"

IsTerminal(status) == status \in {"completed", "failed"}

\* The queue-side state as one value, so that the helpers below compose the
\* way the statements of a handler do.
QueueState ==
    [list |-> uploadQueue, ref |-> uploadQueueRef, flag |-> isUploadingRef,
     run |-> running, polls |-> pollTimers, att |-> attempts, hist |-> hist]

SetQueueState(q) ==
    /\ uploadQueue' = q.list
    /\ uploadQueueRef' = q.ref
    /\ isUploadingRef' = q.flag
    /\ running' = q.run
    /\ pollTimers' = q.polls
    /\ attempts' = q.att
    /\ hist' = q.hist

\* setUploadQueue(prev => prev.map(item => item.id === id ? {...item, status} : item))
updateChunkStatus(q, id, status) ==
    [q EXCEPT
       !.list = [i \in DOMAIN q.list |->
                    IF q.list[i].id = id
                    THEN [q.list[i] EXCEPT !.status = status]
                    ELSE q.list[i]],
       !.hist = [i \in DOMAIN q.hist |->
                    IF q.list[i].id = id /\ q.list[i].status # status
                    THEN Append(q.hist[i], status)
                    ELSE q.hist[i]]]

\* Mutant of processQueue: the navigator.onLine check is missing.
processQueueIgnoresConnectivity(q, cs, on) ==
    IF q.flag \/ q.ref = <<>> THEN q
    ELSE LET c == Head(q.ref)
             u == updateChunkStatus(q, cs[c].id, "uploading")
         IN [u EXCEPT !.flag = TRUE,
                      !.run = Append(@, [chunk |-> c, at |-> "post", delay |-> 0]),
                      !.att = [@ EXCEPT ![c] = @ + 1]]

\* Mutant of processQueue: offline, it returns without scheduling the poll.
processQueueNoPoll(q, cs, on) ==
    IF q.flag \/ q.ref = <<>> THEN q
    ELSE IF ~on THEN q
    ELSE LET c == Head(q.ref)
             u == updateChunkStatus(q, cs[c].id, "uploading")
         IN [u EXCEPT !.flag = TRUE,
                      !.run = Append(@, [chunk |-> c, at |-> "post", delay |-> 0]),
                      !.att = [@ EXCEPT ![c] = @ + 1]]

\* Mutant of processQueue: the in-flight flag is not looked at.
processQueueIgnoresFlag(q, cs, on) ==
    IF q.ref = <<>> THEN q
    ELSE IF ~on THEN [q EXCEPT !.polls = @ + 1]
    ELSE LET c == Head(q.ref)
             u == updateChunkStatus(q, cs[c].id, "uploading")
         IN [u EXCEPT !.flag = TRUE,
                      !.run = Append(@, [chunk |-> c, at |-> "post", delay |-> 0]),
                      !.att = [@ EXCEPT ![c] = @ + 1]]

\* processQueue up to its first await: the guard, the connectivity check, and
\* the start of the transfer of the head chunk.  cs is the chunk store, on is
\* navigator.onLine.
processQueue(q, cs, on) ==
    IF q.flag \/ q.ref = <<>> THEN q
    ELSE IF ~on THEN [q EXCEPT !.polls = @ + 1]
    ELSE LET c == Head(q.ref)
             u == updateChunkStatus(q, cs[c].id, "uploading")
         IN [u EXCEPT !.flag = TRUE,
                      !.run = Append(@, [chunk |-> c, at |-> "post", delay |-> 0]),
                      !.att = [@ EXCEPT ![c] = @ + 1]]

\* Mutant of mayRetry: <= for <.
mayRetryOffByOne(chunkData) == chunkData.retries <= MAX_RETRIES

\* if (currentChunk.retries < MAX_RETRIES)
mayRetry(chunkData) == chunkData.retries < MAX_RETRIES

\* Mutant of backoffDelay: the exponent is the count before its increment.
backoffDelayBeforeIncrement(retries) == BASE_DELAY * 2^(retries - 1)

\* 1000 * Math.pow(2, currentChunk.retries)
backoffDelay(retries) == BASE_DELAY * 2^retries

\* Mutant of shift: the head stays in the processing queue.
shiftNothing(q) == q

\* uploadQueueRef.current.shift()
shift(q) == [q EXCEPT !.ref = Tail(@)]

\* Mutant of finally: the flag is reset and the drain is not re-invoked.
finallyNoDrain(q, cs, on) == [q EXCEPT !.flag = FALSE]

\* finally { isUploadingRef.current = false; processQueue(); }
finally(q, cs, on) == processQueue([q EXCEPT !.flag = FALSE], cs, on)

\* ------------------------------------------------------------------- Init
Init ==
    /\ isRecording = FALSE
    /\ uploadQueue = <<>>
    /\ mediaRecorderRef = 0
    /\ chunkSequence = 0
    /\ timerInterval = 0
    /\ uploadQueueRef = <<>>
    /\ isUploadingRef = FALSE
    /\ chunks = <<>>
    /\ recorders = <<>>
    /\ intervals = <<>>
    /\ prompts = 0
    /\ now = 0
    /\ online \in BOOLEAN
    /\ pollTimers = 0
    /\ running = <<>>
    /\ attempts = <<>>
    /\ outcome = <<>>
    /\ emitter = <<>>
    /\ hist = <<>>

\* ---------------------------------------------------------- capture session
queueVars == <<uploadQueue, uploadQueueRef, isUploadingRef, chunks, pollTimers,
               running, attempts, outcome, emitter, hist, now>>

\* startRecording up to its await: the button is rendered only while
\* !isRecording, and nothing disables it while a prompt is open.
startRecording ==
    /\ ~isRecording
    /\ prompts + Len(recorders) < MaxStarts
    /\ prompts' = prompts + 1
    /\ UNCHANGED <<isRecording, mediaRecorderRef, chunkSequence, timerInterval,
                   recorders, intervals, online>>
    /\ UNCHANGED queueVars

\* The prompt resolves with a stream: startStream(stream).
startStream ==
    /\ prompts > 0
    /\ prompts' = prompts - 1
    /\ recorders' = Append(recorders,
                       [state |-> "recording", flush |-> FALSE, tracks |-> "live",
                        stops |-> 0, releases |-> 0, calls |-> 0])
    /\ mediaRecorderRef' = Len(recorders) + 1
    /\ isRecording' = TRUE
    /\ chunkSequence' = 0
    /\ intervals' = Append(intervals, TRUE)
    /\ timerInterval' = Len(intervals) + 1
    /\ UNCHANGED online
    /\ UNCHANGED queueVars

\* The prompt rejects: alert(...), nothing else.
captureDenied ==
    /\ prompts > 0
    /\ prompts' = prompts - 1
    /\ UNCHANGED <<isRecording, mediaRecorderRef, chunkSequence, timerInterval,
                   recorders, intervals, online>>
    /\ UNCHANGED queueVars

\* The prompt resolves with a stream and startStream throws before recording
\* is established: MediaRecorder is missing or its constructor throws (the
\* stream has no recorder and no onended handler), or recorder.start throws
\* (the recorder stays inactive, onended is set).  The catch block of
\* startRecording alerts and nothing else.
startStreamThrows ==
    /\ prompts > 0
    /\ prompts' = prompts - 1
    /\ \E hooked \in BOOLEAN :
          recorders' = Append(recorders,
                          [state |-> IF hooked THEN "inactive" ELSE "none",
                           flush |-> FALSE, tracks |-> "live",
                           stops |-> 0, releases |-> 0, calls |-> 0])
    /\ UNCHANGED <<isRecording, mediaRecorderRef, chunkSequence, timerInterval,
                   intervals, online>>
    /\ UNCHANGED queueVars

\* Mutant of mustRelease: the recorder's state is not looked at.
mustReleaseUnguarded(recs) == mediaRecorderRef # 0

\* if (mediaRecorderRef.current && mediaRecorderRef.current.state !== 'inactive')
mustRelease(recs) ==
    mediaRecorderRef # 0 /\ recs[mediaRecorderRef].state # "inactive"

\* The recorders after stopRecording ran on recs: recorder.stop() leaves the
\* recorder inactive with its final dataavailable event pending, and every
\* track of its stream is stopped.  calls counts the runs of stopRecording
\* that found this recorder in mediaRecorderRef.
stoppedRecorders(recs) ==
    IF mediaRecorderRef = 0 THEN recs
    ELSE IF mustRelease(recs)
    THEN [recs EXCEPT ![mediaRecorderRef] =
            [@ EXCEPT !.state = "inactive", !.flush = TRUE, !.stops = @ + 1,
                      !.tracks = "stopped", !.releases = @ + 1,
                      !.calls = @ + 1]]
    ELSE [recs EXCEPT ![mediaRecorderRef].calls = @ + 1]

\* stopRecording, run on the recorders recs.
stopRecording(recs) ==
    /\ recorders' = stoppedRecorders(recs)
    /\ intervals' = IF timerInterval # 0
                    THEN [intervals EXCEPT ![timerInterval] = FALSE]
                    ELSE intervals
    /\ isRecording' = FALSE
    /\ UNCHANGED <<mediaRecorderRef, chunkSequence, timerInterval, prompts, online>>
    /\ UNCHANGED queueVars

\* The Terminate button, rendered only while isRecording.
stopClicked ==
    /\ isRecording
    /\ stopRecording(recorders)

\* The video track of recorder r's stream ends (sharing revoked): its onended
\* handler is stopRecording.  When that was the stream's last live track the
\* recorder has stopped by itself before the handler runs.
streamEnded ==
    \E r \in DOMAIN recorders, last \in BOOLEAN :
        /\ recorders[r].tracks = "live"
        /\ recorders[r].state # "none"
        /\ stopRecording(
             [recorders EXCEPT ![r] =
                IF last /\ @.state = "recording"
                THEN [@ EXCEPT !.tracks = "ended", !.state = "inactive", !.flush = TRUE]
                ELSE [@ EXCEPT !.tracks = "ended"]])

\* Recorder r raises a fatal capture or encoder error: the user agent makes it
\* inactive and delivers the data it holds.  startStream registers no error
\* handler (only ondataavailable and the track's onended), so no code runs.
recorderError ==
    \E r \in DOMAIN recorders :
        /\ recorders[r].state = "recording"
        /\ recorders' = [recorders EXCEPT ![r] =
                            [@ EXCEPT !.state = "inactive", !.flush = TRUE]]
        /\ UNCHANGED <<isRecording, mediaRecorderRef, chunkSequence, timerInterval,
                       intervals, prompts, online>>
        /\ UNCHANGED queueVars

\* The video track of a stream that got no onended handler ends: no code runs.
strayStreamEnded ==
    \E r \in DOMAIN recorders :
        /\ recorders[r].tracks = "live"
        /\ recorders[r].state = "none"
        /\ recorders' = [recorders EXCEPT ![r].tracks = "ended"]
        /\ UNCHANGED <<isRecording, mediaRecorderRef, chunkSequence, timerInterval,
                       intervals, prompts, online>>
        /\ UNCHANGED queueVars

\* ------------------------------------------------------------ upload queue
\* Mutant of handleDataAvailable: a chunk that arrives while a transfer or a
\* backoff wait is pending is dropped.
handleDataAvailableWhenIdle(r, t) ==
    /\ ~isUploadingRef
    /\ LET seq == chunkSequence + 1
           chunkData == [id |-> t, seq |-> seq, retries |-> 0]
           cs == Append(chunks, chunkData)
           k == Len(chunks) + 1
           q == [QueueState EXCEPT
                   !.list = Append(@, [id |-> t, seq |-> seq, status |-> "pending"]),
                   !.ref = Append(@, k),
                   !.att = Append(@, 0),
                   !.hist = Append(@, <<"pending">>)]
       IN /\ chunkSequence' = seq
          /\ now' = t
          /\ chunks' = cs
          /\ outcome' = Append(outcome, <<>>)
          /\ emitter' = Append(emitter, r)
          /\ SetQueueState(processQueue(q, cs, online))

\* handleDataAvailable for an event of size > 0, read at clock value t.
handleDataAvailable(r, t) ==
    LET seq == chunkSequence + 1
        chunkData == [id |-> t, seq |-> seq, retries |-> 0]
        cs == Append(chunks, chunkData)
        k == Len(chunks) + 1
        q == [QueueState EXCEPT
                !.list = Append(@, [id |-> t, seq |-> seq, status |-> "pending"]),
                !.ref = Append(@, k),
                !.att = Append(@, 0),
                !.hist = Append(@, <<"pending">>)]
    IN /\ chunkSequence' = seq
       /\ now' = t
       /\ chunks' = cs
       /\ outcome' = Append(outcome, <<>>)
       /\ emitter' = Append(emitter, r)
       /\ SetQueueState(processQueue(q, cs, online))

\* What Date.now() may return: the clock has ticked since the last read, or
\* (two events handled within one millisecond) it has not.
ClockReads == IF chunks = <<>> THEN {now + 1} ELSE {now, now + 1}

\* Mutant of hasData: an empty blob passes the test.
hasDataOrNone(size) == size >= 0

\* if (event.data.size > 0)
hasData(size) == size > 0

\* A dataavailable event of recorder r with a blob of the given size, handled
\* at clock value t: a time slice while r records, or the final one after it
\* stopped.
emission(r, size, t) ==
        /\ recorders[r].state = "recording" \/ recorders[r].flush
        /\ recorders' = IF recorders[r].state = "recording" THEN recorders
                        ELSE [recorders EXCEPT ![r].flush = FALSE]
        /\ IF hasData(size)
           THEN /\ Len(chunks) < MaxChunks
                /\ handleDataAvailable(r, t)
           ELSE /\ t = now + 1
                /\ UNCHANGED queueVars
                /\ UNCHANGED chunkSequence
        /\ UNCHANGED <<isRecording, mediaRecorderRef, timerInterval, intervals,
                       prompts, online>>

\* A dataavailable event of some recorder.
dataAvailable ==
    \E r \in DOMAIN recorders, size \in {0, 1}, t \in ClockReads :
        emission(r, size, t)

\* app.post('/upload') of the backend: the HTTP status it answers with, given
\* whether the request carries a file, whether FOLDER_ID is set, and whether
\* Drive accepts the file.
uploadRoute(file, folderId, driveOk) ==
    IF ~file THEN 400
    ELSE IF ~folderId THEN 500
    ELSE IF driveOk THEN 200
    ELSE 500

\* The ways one POST can go: it reaches the endpoint or not, FOLDER_ID is set
\* there or not, Drive accepts the file or not.
Requests == [reached : BOOLEAN, folderId : BOOLEAN, driveOk : BOOLEAN]

\* What axios gets back: the endpoint's status, or 0 when there is no response.
\* formData always carries the chunk.
Answer(rq) == IF rq.reached THEN uploadRoute(TRUE, rq.folderId, rq.driveOk) ELSE 0

\* axios resolves on a 2xx status and rejects on anything else.
Acknowledged(rq) == Answer(rq) \in 200..299

\* The endpoint answered that its destination folder is not configured.
ConfigurationFault(rq) == rq.reached /\ ~rq.folderId

\* The awaited axios.post of invocation i resolves.
transferSucceeds ==
    \E i \in DOMAIN running :
        /\ \E rq \in Requests : Acknowledged(rq)
        /\ running[i].at = "post"
        /\ LET c == running[i].chunk
               q1 == updateChunkStatus(QueueState, chunks[c].id, "completed")
               q2 == [shift(q1) EXCEPT !.run = RemoveAt(@, i)]
           IN /\ q1.ref # <<>>
              /\ outcome' = [outcome EXCEPT ![c] = Append(@, "completed")]
              /\ UNCHANGED chunks
              /\ SetQueueState(finally(q2, chunks, online))
        /\ UNCHANGED <<emitter, now, online>>
        /\ UNCHANGED captureVars

\* The catch block of invocation i, and the finally block when it does not
\* wait: it does not look at the error.
catchBlock(i) ==
        /\ running[i].at = "post"
        /\ LET c == running[i].chunk IN
           IF mayRetry(chunks[c])
           THEN LET n == chunks[c].retries + 1
                    q1 == updateChunkStatus(QueueState, chunks[c].id, RetryStatus(n))
                IN /\ chunks' = [chunks EXCEPT ![c].retries = n]
                   /\ SetQueueState(
                        [q1 EXCEPT !.run[i] =
                           [chunk |-> c, at |-> "backoff",
                            delay |-> backoffDelay(n)]])
                   /\ UNCHANGED outcome
           ELSE LET q1 == updateChunkStatus(QueueState, chunks[c].id, "failed")
                    q2 == [shift(q1) EXCEPT !.run = RemoveAt(@, i)]
                IN /\ q1.ref # <<>>
                   /\ outcome' = [outcome EXCEPT ![c] = Append(@, "failed")]
                   /\ UNCHANGED chunks
                   /\ SetQueueState(finally(q2, chunks, online))
        /\ UNCHANGED <<emitter, now, online>>
        /\ UNCHANGED captureVars

\* The awaited axios.post of invocation i rejects with the outcome rq.
transferRejected(i, rq) == ~Acknowledged(rq) /\ catchBlock(i)

\* The awaited axios.post of some invocation rejects.
transferFails ==
    \E i \in DOMAIN running :
        /\ \E rq \in Requests : ~Acknowledged(rq)
        /\ catchBlock(i)

\* The backoff timer of invocation i fires: the finally block runs.
backoffExpires ==
    \E i \in DOMAIN running :
        /\ running[i].at = "backoff"
        /\ SetQueueState(
             finally([QueueState EXCEPT !.run = RemoveAt(@, i)], chunks, online))
        /\ UNCHANGED <<chunks, outcome, emitter, now, online>>
        /\ UNCHANGED captureVars

\* A setTimeout(processQueue, 5000) callback fires.
pollFires ==
    /\ pollTimers > 0
    /\ SetQueueState(
         processQueue([QueueState EXCEPT !.polls = @ - 1], chunks, online))
    /\ UNCHANGED <<chunks, outcome, emitter, now, online>>
    /\ UNCHANGED captureVars

\* navigator.onLine changes.
connectivityChanges ==
    /\ online' = ~online
    /\ UNCHANGED captureVars
    /\ UNCHANGED queueVars

Next ==
    \/ startRecording
    \/ startStream
    \/ captureDenied
    \/ startStreamThrows
    \/ stopClicked
    \/ streamEnded
    \/ strayStreamEnded
    \/ recorderError
    \/ dataAvailable
    \/ transferSucceeds
    \/ transferFails
    \/ backoffExpires
    \/ pollFires
    \/ connectivityChanges

Spec == Init /\ [][Next]_vars

\* The upload queue fed by one capture session: startRecording is clicked once,
\* and the session meets no capture fault.
QueueNext ==
    \/ startRecording /\ recorders = <<>> /\ prompts = 0
    \/ startStream
    \/ captureDenied
    \/ stopClicked
    \/ streamEnded
    \/ dataAvailable
    \/ transferSucceeds
    \/ transferFails
    \/ backoffExpires
    \/ pollFires
    \/ connectivityChanges

QueueSpec == Init /\ [][QueueNext]_vars

\* One capture session with its faults: startRecording is clicked once, and
\* startStream may throw and the recorder may fail.
FaultNext ==
    \/ startRecording /\ recorders = <<>> /\ prompts = 0
    \/ startStream
    \/ captureDenied
    \/ startStreamThrows
    \/ stopClicked
    \/ streamEnded
    \/ strayStreamEnded
    \/ recorderError
    \/ dataAvailable
    \/ transferSucceeds
    \/ transferFails
    \/ backoffExpires
    \/ pollFires
    \/ connectivityChanges

FaultSpec == Init /\ [][FaultNext]_vars

\* Every start the bounds allow, none of them meeting a capture fault.
RestartNext ==
    \/ startRecording
    \/ startStream
    \/ captureDenied
    \/ stopClicked
    \/ streamEnded
    \/ dataAvailable
    \/ transferSucceeds
    \/ transferFails
    \/ backoffExpires
    \/ pollFires
    \/ connectivityChanges

RestartSpec == Init /\ [][RestartNext]_vars

\* The capture session with every start the bounds allow, its recorders
\* emitting one non-empty chunk between them.
CaptureNext ==
    \/ startRecording
    \/ startStream
    \/ captureDenied
    \/ startStreamThrows
    \/ stopClicked
    \/ streamEnded
    \/ strayStreamEnded
    \/ recorderError
    \/ dataAvailable /\ chunks = <<>>
    \/ dataAvailable /\ chunks # <<>> /\ chunks' = chunks
    \/ transferSucceeds
    \/ transferFails
    \/ backoffExpires
    \/ pollFires
    \/ connectivityChanges

CaptureSpec == Init /\ [][CaptureNext]_vars

\* ------------------------------------------------------------- observations
Range(s) == {s[i] : i \in DOMAIN s}

\* The transfers awaiting the endpoint's answer.
InFlight == {i \in DOMAIN running : running[i].at = "post"}

\* The list items shown as uploading.
ShownUploading == {k \in DOMAIN uploadQueue : uploadQueue[k].status = "uploading"}

\* The chunks recorder r emitted up to and including chunk k.
EmittedBy(r, k) == {j \in 1..k : emitter[j] = r}

\* The steps that call processQueue.
Drains ==
    \/ dataAvailable /\ chunks' # chunks
    \/ transferSucceeds
    \/ transferFails /\ outcome' # outcome
    \/ backoffExpires
    \/ pollFires

\* ------------------------------------------------------------------- claims

\* C1 (serial delivery): in every reachable state at most one transfer is in
\* flight and at most one item of the status list shows `uploading`.
C1_SerialDelivery ==
    /\ Cardinality(InFlight) <= 1
    /\ Cardinality(ShownUploading) <= 1

\* C2 (FIFO preservation): for artifacts a enqueued before b, no transfer of b
\* has begun unless a is terminal, and b is never shown `uploading` while a is
\* shown pending, uploading or in retry.
C2_FifoPreservation ==
    \A a, b \in DOMAIN uploadQueue :
        a < b =>
            /\ attempts[b] > 0 => outcome[a] # <<>>
            /\ uploadQueue[b].status = "uploading" => IsTerminal(uploadQueue[a].status)

\* C3 (retry ceiling): every artifact has 0 <= retries <= MAX_RETRIES and at
\* most MAX_RETRIES + 1 attempts; it is marked failed only with exactly
\* MAX_RETRIES + 1 attempts made, and once that many attempts have returned it
\* is terminal.
C3_RetryCeiling ==
    \A c \in DOMAIN chunks :
        /\ chunks[c].retries \in 0..MAX_RETRIES
        /\ attempts[c] <= MAX_RETRIES + 1
        /\ "failed" \in Range(outcome[c]) =>
              attempts[c] = MAX_RETRIES + 1 /\ chunks[c].retries = MAX_RETRIES
        /\ (attempts[c] = MAX_RETRIES + 1 /\ \A i \in DOMAIN running : running[i].chunk # c)
              => outcome[c] # <<>>

\* C3 witness: an artifact marked failed after its four attempts all failed.
C3_Witness ==
    \E c \in DOMAIN chunks :
        /\ outcome[c] = <<"failed">>
        /\ attempts[c] = MAX_RETRIES + 1
        /\ uploadQueue[c].status = "failed"

\* C4 (connectivity deferral): a step taken while offline starts no transfer;
\* a drain that reaches the connectivity check while offline schedules one
\* poll and nothing else; and while offline with no invocation pending, every
\* step leaves the head artifact at the head with its retries and its status.
C4_ConnectivityDeferral ==
    [][ /\ ~online =>
              /\ \A c \in DOMAIN attempts' : attempts'[c] = (IF c \in DOMAIN attempts THEN attempts[c] ELSE 0)
              /\ \A i \in DOMAIN running' :
                    running'[i].at = "post" => i \in DOMAIN running /\ running[i] = running'[i]
        /\ (Drains /\ ~online /\ ~isUploadingRef' /\ uploadQueueRef' # <<>>) =>
              pollTimers' = (IF pollFires THEN pollTimers - 1 ELSE pollTimers) + 1
        /\ (pollFires /\ ~online /\ ~isUploadingRef /\ uploadQueueRef # <<>>) =>
              UNCHANGED <<chunks, uploadQueue, uploadQueueRef, running, pollTimers>>
        /\ (~online /\ ~isUploadingRef /\ uploadQueueRef # <<>>) =>
              LET h == Head(uploadQueueRef)
              IN /\ Head(uploadQueueRef') = h
                 /\ chunks'[h].retries = chunks[h].retries
                 /\ uploadQueue'[h].status = uploadQueue[h].status
      ]_vars

\* C4 witness: offline, nothing in flight, a poll pending for a head artifact
\* that has already used retries.
C4_Witness ==
    /\ ~online
    /\ ~isUploadingRef
    /\ uploadQueueRef # <<>>
    /\ pollTimers >= 1
    /\ chunks[Head(uploadQueueRef)].retries >= 2
    /\ uploadQueue[Head(uploadQueueRef)].status = RetryStatus(2)

\* C5 (sequence integrity): the chunks of each recorder carry 1..N in emission
\* order.
C5_SequenceIntegrity ==
    \A k \in DOMAIN chunks :
        chunks[k].seq = Cardinality(EmittedBy(emitter[k], k))

\* The steps that run stopRecording.
Stops == stopClicked \/ streamEnded

\* C6 (idempotent stop): no recorder is told to stop, and no stream has its
\* tracks stopped, more than once; every run of stopRecording leaves the
\* session idle; and a run that finds the session idle, or the recorder absent
\* or inactive, stops no recorder and no track.
C6_IdempotentStop ==
    /\ [](\A r \in DOMAIN recorders :
             recorders[r].stops <= 1 /\ recorders[r].releases <= 1)
    /\ [][ Stops =>
             /\ ~isRecording'
             /\ (~isRecording \/ ~mustRelease(recorders)) =>
                   \A r \in DOMAIN recorders :
                       /\ recorders'[r].stops = recorders[r].stops
                       /\ recorders'[r].releases = recorders[r].releases
         ]_vars

\* C6 witness: stopRecording has run twice on the same recorder, which was
\* stopped once, and the session is idle.
C6_Witness ==
    \E r \in DOMAIN recorders :
        /\ recorders[r].calls >= 2
        /\ recorders[r].stops = 1
        /\ recorders[r].releases = 1
        /\ ~isRecording

\* C7 (terminal exactly once): processQueue takes a terminal branch at most
\* once per artifact; a terminal status, once shown, is the last status the
\* item shows; and no item of the processing queue shows a terminal status.
C7_TerminalOnce ==
    \A k \in DOMAIN uploadQueue :
        /\ Len(outcome[k]) <= 1
        /\ \A j \in 1..(Len(hist[k]) - 1) : ~IsTerminal(hist[k][j])
        /\ IsTerminal(uploadQueue[k].status) => k \notin Range(uploadQueueRef)

\* C8 (a failed chunk does not block): the step that takes the failed branch
\* for artifact c marks it failed and removes it from the head of the queue,
\* and when the queue is still non-empty the same step starts the transfer of
\* the new head, or schedules a connectivity poll when offline.
C8_FailedDoesNotBlock ==
    [][ \A c \in DOMAIN outcome :
          (outcome'[c] = Append(outcome[c], "failed")) =>
             /\ uploadQueueRef # <<>> /\ Head(uploadQueueRef) = c
             /\ uploadQueueRef' = Tail(uploadQueueRef)
             /\ c \notin Range(uploadQueueRef')
             /\ "failed" \in Range(hist'[c])
             /\ uploadQueueRef' # <<>> =>
                   LET h == Head(uploadQueueRef')
                   IN IF online
                      THEN /\ isUploadingRef'
                           /\ attempts'[h] = attempts[h] + 1
                           /\ \E i \in DOMAIN running' :
                                 running'[i].chunk = h /\ running'[i].at = "post"
                      ELSE /\ ~isUploadingRef'
                           /\ pollTimers' = pollTimers + 1
      ]_vars

\* C8 witness: the first artifact failed for good and the second is in its
\* first transfer.
C8_Witness ==
    /\ Len(chunks) >= 2
    /\ outcome[1] = <<"failed">>
    /\ uploadQueueRef = <<2>>
    /\ attempts[2] = 1
    /\ running = <<[chunk |-> 2, at |-> "post", delay |-> 0]>>
    /\ hist[2] = <<"pending", "uploading">>

\* What the environment owes the queue: a transfer returns an outcome, timers
\* fire, and connectivity returns and stays long enough for a poll to find it.
QueueFairness ==
    /\ WF_vars(transferSucceeds \/ transferFails)
    /\ WF_vars(backoffExpires)
    /\ WF_vars(pollFires)
    /\ WF_vars(connectivityChanges /\ ~online)
    /\ SF_vars(pollFires /\ online)

LiveSpec == QueueSpec /\ QueueFairness

\* Artifact k is shown completed or failed.
Settled(k) == k \in DOMAIN uploadQueue /\ IsTerminal(uploadQueue[k].status)

\* C9 (uploads drain after stop): stopRecording leaves the processing queue,
\* the pending invocations and timers and the status list as they are; every
\* artifact ever enqueued is eventually shown completed or failed; and the
\* processing queue is empty again and again.
C9_DrainAfterStop ==
    /\ [][ Stops => UNCHANGED <<uploadQueue, uploadQueueRef, isUploadingRef,
                                 chunks, running, pollTimers>> ]_vars
    /\ \A k \in 1..MaxChunks :
          [](k \in DOMAIN uploadQueue => <>Settled(k))
    /\ []<>(uploadQueueRef = <<>>)

\* C9 witness: the session has been stopped while a transfer is in flight and
\* another artifact waits behind it.
C9_Witness ==
    /\ ~isRecording
    /\ \E r \in DOMAIN recorders : recorders[r].stops = 1
    /\ InFlight # {}
    /\ Len(uploadQueueRef) >= 2

\* C10 as stated (scenario B): a single artifact whose every attempt is
\* rejected shows pending, uploading, retry (1), retry (2), retry (3), failed,
\* with 4 attempts made and the queue empty afterward.
C10_ScenarioB_AsStated ==
    (Len(uploadQueue) = 1 /\ outcome[1] = <<"failed">>) =>
        /\ hist[1] = <<"pending", "uploading", "retry (1)", "retry (2)", "retry (3)",
                       "failed">>
        /\ attempts[1] = 4
        /\ uploadQueueRef = <<>>

\* C10 amended: the item shows uploading again at the start of every attempt:
\* pending, uploading, retry (1), uploading, retry (2), uploading, retry (3),
\* uploading, failed, with 4 attempts made and the queue empty afterward.
C10_ScenarioB ==
    (Len(uploadQueue) = 1 /\ outcome[1] = <<"failed">>) =>
        /\ hist[1] = <<"pending", "uploading", "retry (1)", "uploading", "retry (2)",
                       "uploading", "retry (3)", "uploading", "failed">>
        /\ attempts[1] = 4
        /\ uploadQueueRef = <<>>

\* C10 witness: the single artifact has failed for good.
C10_Witness ==
    /\ Len(uploadQueue) = 1
    /\ outcome[1] = <<"failed">>
    /\ uploadQueue[1].status = "failed"

\* C11 (a configuration fault does not consume retries): a step in which a
\* transfer is rejected because the endpoint lacks its destination folder
\* leaves the artifact's retries as they are and starts no backoff wait for it.
C11_ConfigFaultKeepsBudget ==
    [][ \A i \in DOMAIN running, rq \in Requests :
          (ConfigurationFault(rq) /\ transferRejected(i, rq)) =>
             LET c == running[i].chunk
             IN /\ chunks'[c].retries = chunks[c].retries
                /\ \A j \in DOMAIN running' :
                      running'[j].chunk = c => running'[j].at # "backoff"
      ]_vars

\* The steps in which a call of startRecording fails.
FailedStart == captureDenied \/ startStreamThrows

\* C12 (a failed start creates no session): a failed start leaves the session
\* state, the recorder handle and the interval timers as they were, so an idle
\* session stays idle, and no stream it acquired is left live.
C12_FailedStartNoSession ==
    [][ FailedStart =>
          /\ UNCHANGED <<isRecording, mediaRecorderRef, timerInterval, intervals>>
          /\ \A r \in DOMAIN recorders' :
                r \notin DOMAIN recorders => recorders'[r].tracks # "live"
      ]_vars

\* The steps of the upload queue and of its environment.
QueueSteps ==
    transferSucceeds \/ transferFails \/ backoffExpires \/ pollFires
        \/ connectivityChanges

\* A dataavailable event with data is handled.
chunkEmitted == dataAvailable /\ chunks' # chunks

C14_SessionStateMachine ==
    [][ (isRecording /\ (stopClicked \/ streamEnded \/ recorderError)) =>
          /\ ~isRecording'
          /\ recorders'[mediaRecorderRef].state = "inactive"
          /\ recorders'[mediaRecorderRef].tracks # "live"
          /\ ~intervals'[timerInterval]
      ]_vars

\* C15 (the elapsed-time counter runs only while recording): every interval
\* timer that is still active belongs to a session that is recording.
C15_TimerOnlyWhileRecording ==
    \A t \in DOMAIN intervals : intervals[t] => isRecording

\* Recorder r records, or a track of its stream is live.
Live(r) == recorders[r].state = "recording" \/ recorders[r].tracks = "live"

\* C16 (exclusive ownership): at most one recorder or stream is live, it is the
\* one mediaRecorderRef refers to, and none is live once the session is idle
\* again.
C16_ExclusiveOwnership ==
    /\ Cardinality({r \in DOMAIN recorders : Live(r)}) <= 1
    /\ \A r \in DOMAIN recorders : Live(r) => r = mediaRecorderRef
    /\ ~isRecording => \A r \in DOMAIN recorders : ~Live(r)

\* C17 (unique artifact ids): two distinct artifacts have distinct ids, and
\* each item of the status list carries the id of its own artifact only.
C17_UniqueIds ==
    \A a, b \in DOMAIN chunks :
        a # b => chunks[a].id # chunks[b].id /\ uploadQueue[a].id # uploadQueue[b].id

\* C18 (backoff growth): a backoff wait that follows the k-th failed attempt
\* of an artifact (k = its retries after the increment) lasts 1000 * 2^k ms,
\* that is 2000, 4000, 8000 for k = 1, 2, 3, and the wait does not decrease
\* from one k to the next.
C18_BackoffGrowth ==
    /\ \A i \in DOMAIN running :
          running[i].at = "backoff" =>
             LET c == running[i].chunk
                 k == attempts[c]
             IN /\ k \in 1..MAX_RETRIES
                /\ chunks[c].retries = k
                /\ running[i].delay = <<2000, 4000, 8000>>[k]
                /\ running[i].delay = backoffDelay(k)
    /\ \A k \in 1..(MAX_RETRIES - 1) : backoffDelay(k) <= backoffDelay(k + 1)

\* C18 witness: the wait after the third failed attempt, 8000 ms.
C18_Witness ==
    \E i \in DOMAIN running :
        /\ running[i].at = "backoff"
        /\ attempts[running[i].chunk] = 3
        /\ running[i].delay = 8000

\* The invocations of processQueue that sit in their backoff wait.
Waiting == {i \in DOMAIN running : running[i].at = "backoff"}

\* C19 (the head blocks during backoff): while a backoff wait is pending its
\* artifact is the head of the processing queue and the in-flight flag is set;
\* every step taken during the wait leaves that artifact at the head; and a
\* step that starts a transfer attempt is the expiry of the wait itself, never
\* an enqueue or a poll.
C19_HeadBlocksDuringBackoff ==
    /\ [](\A i \in Waiting :
             /\ isUploadingRef
             /\ uploadQueueRef # <<>>
             /\ Head(uploadQueueRef) = running[i].chunk)
    /\ [][ Waiting # {} =>
             /\ uploadQueueRef' # <<>>
             /\ Head(uploadQueueRef') = Head(uploadQueueRef)
             /\ (\E c \in DOMAIN attempts : attempts'[c] # attempts[c]) =>
                   backoffExpires
             /\ \A c \in DOMAIN attempts' :
                   c \notin DOMAIN attempts => attempts'[c] = 0
             /\ Waiting' # {} => running' = running
      ]_vars

\* C19 witness: a backoff wait is pending for the head while a second
\* artifact, not yet tried, waits behind it and a connectivity poll is
\* scheduled.
C19_Witness ==
    /\ Waiting # {}
    /\ Len(uploadQueueRef) = 2
    /\ attempts[uploadQueueRef[2]] = 0
    /\ pollTimers > 0

\* C20 (no stall): whenever the processing queue is non-empty, the in-flight
\* flag is set or a connectivity poll is scheduled; and the flag is set
\* exactly while one invocation of processQueue is suspended at its transfer
\* or its backoff wait, on the head artifact.
C20_NoStall ==
    /\ uploadQueueRef # <<>> => (isUploadingRef \/ pollTimers > 0)
    /\ isUploadingRef <=> running # <<>>
    /\ Len(running) <= 1
    /\ \A i \in DOMAIN running :
          uploadQueueRef # <<>> /\ running[i].chunk = Head(uploadQueueRef)

\* C20 witness: the first artifact has failed for good while offline; the
\* flag is reset, the second artifact is the head, and the drain that followed
\* the failure has scheduled a poll.
C20_Witness ==
    /\ Len(chunks) >= 2
    /\ outcome[1] = <<"failed">>
    /\ uploadQueueRef = <<2>>
    /\ ~isUploadingRef
    /\ pollTimers > 0
    /\ attempts[2] = 0

\* A dataavailable event whose blob is empty is handled.
emptyEmission ==
    \E r \in DOMAIN recorders, t \in ClockReads : emission(r, 0, t)

\* C21 (zero-byte emissions are discarded): a step that handles an empty
\* dataavailable event creates no artifact, leaves the sequence counter, the
\* processing queue, the status list and the in-flight flag as they are, and
\* drains nothing: no transfer starts and no poll is scheduled.
C21_ZeroByteDiscarded ==
    [][ emptyEmission =>
          UNCHANGED <<chunks, chunkSequence, uploadQueueRef, uploadQueue,
                      isUploadingRef, running, attempts, pollTimers>>
      ]_vars

\* C21 witness: the recorder was stopped and its final event, an empty one,
\* has been handled: no artifact exists and the counter is still 0.
C21_Witness ==
    /\ chunks = <<>>
    /\ chunkSequence = 0
    /\ uploadQueue = <<>>
    /\ \E r \in DOMAIN recorders :
          /\ recorders[r].stops = 1
          /\ recorders[r].state = "inactive"
          /\ ~recorders[r].flush

\* C22 (no re-transfer after acknowledgement): an item of the status list
\* shows completed only when a transfer of its own artifact was acknowledged,
\* and it is marked so in the step that handles the acknowledgement; an
\* artifact has at most one terminal outcome; and once an artifact's transfer
\* was acknowledged, or it was marked failed, it has left the processing
\* queue and no transfer attempt is started for it.
C22_NoRetransferAfterAck ==
    /\ [](\A k \in DOMAIN uploadQueue :
             /\ "completed" \in Range(hist[k]) => outcome[k] = <<"completed">>
             /\ Len(outcome[k]) <= 1
             /\ outcome[k] # <<>> =>
                   /\ k \notin Range(uploadQueueRef)
                   /\ \A i \in DOMAIN running : running[i].chunk # k)
    /\ [][ \A k \in DOMAIN uploadQueue :
             /\ outcome[k] # <<>> => attempts'[k] = attempts[k]
             /\ (outcome'[k] = <<"completed">> /\ outcome[k] = <<>>) =>
                   uploadQueue'[k].status = "completed"
      ]_vars

====
